---- MODULE Spec2Model ----
(***************************************************************************)
(* Model of src/nifty_bot.py (FnOTradingBot): the option-chain windowing   *)
(* and pre-filter functions, the upstream fetchers and the per-symbol      *)
(* pipeline process_stock.                                                 *)
(*                                                                         *)
(* Strike prices and the spot price are modelled as integers (a fixed      *)
(* price unit).  An option-chain key is the text the upstream feed sends;  *)
(* it is modelled by the value it parses to and the form it is written in. *)
(***************************************************************************)
EXTENDS Integers, Sequences, FiniteSets, TLC

(***************************************************************************)
(* Bounds of the model.                                                    *)
(***************************************************************************)
\* strike values of the windowing inputs range over 1..MaxStrike
MaxStrike == 11

(***************************************************************************)
(* Program constants.                                                      *)
(***************************************************************************)
\* atm_idx - 5 / atm_idx + 6 : the half-width of the strike window
HalfWidth == 5
\* total_oi < 10000
MinTotalOI == 10000
\* avg_iv > 50
MaxAvgIV == 50

\* the candidate symbols are 1..NumSymbols (entries of STOCKS_INDICES)
NumSymbols == 2

\* if not candles or len(candles) < 10
MinCandles == 10

VARIABLES
    oc_data,          \* the option-chain payload (process_stock's oc_data)
    pf_result,        \* what pre_filter_stock returned for oc_data (or NotCalled)
    fmt_result,       \* what format_option_data_for_ai returned (or NotCalled)
    running,          \* self.running
    security_id_map,  \* self.security_id_map: the symbols that have an entry
    pc,               \* where the current process_stock call stands ("idle": none)
    symbol,           \* the symbol of the current (or last) process_stock call
    locals,           \* the other locals of the current process_stock call
    requests,         \* the HTTP exchanges of the current process_stock call
    calls,            \* the stages the current process_stock call has started
    result,           \* per symbol, what its last process_stock call returned
    sup_state,        \* Transport Supervisor: the state of its state machine
    failures,         \* Transport Supervisor: consecutive stream failures
    poll_cycles,      \* Transport Supervisor: successful poll cycles since failover
    polled,           \* Transport Supervisor: quotes acquired by polling (saturating)
    quote_source,     \* the transport the last quote came through
    sup_event         \* the last event the Transport Supervisor handled

botvars == <<running, security_id_map>>
procvars == <<pc, symbol, locals, requests, calls, result>>
supvars == <<sup_state, failures, poll_cycles, polled, quote_source, sup_event>>
vars == <<oc_data, pf_result, fmt_result, running, security_id_map, pc, symbol,
          locals, requests, calls, result, sup_state, failures, poll_cycles,
          polled, quote_source, sup_event>>

(***************************************************************************)
(* Option-chain keys.  A key is [val, form]:                               *)
(*   form "six"   : the six-decimal text of val, e.g. "24000.000000"       *)
(*   form "plain" : another text that float() parses to val, e.g. "24000"  *)
(*   form "bad"   : a text float() rejects (ValueError)                     *)
(***************************************************************************)
KeyForms == {"six", "plain", "bad"}

\* float(s): the value of a key, defined for the parseable forms
ParseFloat(k) == k.val

Parseable(k) == k.form # "bad"

\* f"{x:.6f}": the six-decimal text of a float
Format6(x) == [val |-> x, form |-> "six"]

Abs(x) == IF x < 0 THEN -x ELSE x


NoStrike == 0 - 1

(***************************************************************************)
(* The payload field last_price: a number, JSON null, or not present.      *)
(***************************************************************************)
Num(n) == [kind |-> "num", v |-> n]
Null == [kind |-> "null", v |-> 0]
Absent == [kind |-> "absent", v |-> 0]

\* oc_data.get('last_price', 0)
GetLastPrice(od) ==
    IF od.last_price.kind = "absent" THEN Num(0) ELSE od.last_price

\* one strike's entry: what the ce / pe sides carry
NoEntry == [ce_oi |-> 0, pe_oi |-> 0, ce_iv |-> 0, pe_iv |-> 0]

\* the lookup that accepts any key parsing to the same strike
OcGet_AnyForm(oc, key) ==
    IF key \in DOMAIN oc THEN oc[key]
    ELSE IF \E k \in DOMAIN oc : k.form # "bad" /\ k.val = key.val
         THEN oc[CHOOSE k \in DOMAIN oc : k.form # "bad" /\ k.val = key.val]
         ELSE NoEntry

\* oc.get(key, {}) followed by .get('ce', {}) / .get('pe', {}) and .get(field, 0)
OcGet(oc, key) == IF key \in DOMAIN oc THEN oc[key] ELSE NoEntry

(***************************************************************************)
(* strikes = sorted([float(s) for s in oc.keys()])                         *)
(***************************************************************************)
RECURSIVE KeyList(_)
KeyList(S) ==
    IF S = {} THEN <<>>
    ELSE LET k == CHOOSE x \in S : TRUE IN <<k>> \o KeyList(S \ {k})

RECURSIVE Insert(_, _)
Insert(x, s) ==
    IF s = <<>> THEN <<x>>
    ELSE IF x < Head(s) THEN <<x>> \o s
         ELSE <<Head(s)>> \o Insert(x, Tail(s))

RECURSIVE SortAsc(_)
SortAsc(s) == IF s = <<>> THEN <<>> ELSE Insert(Head(s), SortAsc(Tail(s)))

\* sorted(...) in the variant that forgets to sort (dictionary order is kept)
Sorted_Unsorted(s) == [i \in 1..Len(s) |-> s[Len(s) + 1 - i]]

Sorted(s) == SortAsc(s)

AllParseable(oc) == \A k \in DOMAIN oc : Parseable(k)

SortedStrikes(oc) ==
    LET ks == KeyList(DOMAIN oc)
    IN Sorted([i \in 1..Len(ks) |-> ParseFloat(ks[i])])

(***************************************************************************)
(* atm_strike = min(strikes, key=lambda x: abs(x - spot_price))            *)
(* min() scans left to right and keeps the first element with the smallest *)
(* key: a later element replaces it only when its key is strictly smaller. *)
(***************************************************************************)
RECURSIVE MinScan(_, _, _, _)
MinScan(s, i, best, spot) ==
    IF i > Len(s) THEN best
    ELSE MinScan(s, i + 1,
                 IF Abs(s[i] - spot) < Abs(best - spot) THEN s[i] ELSE best,
                 spot)

RECURSIVE MinScanLast(_, _, _, _)
MinScanLast(s, i, best, spot) ==
    IF i > Len(s) THEN best
    ELSE MinScanLast(s, i + 1,
                     IF Abs(s[i] - spot) <= Abs(best - spot) THEN s[i] ELSE best,
                     spot)

\* the scan that lets a later equal distance win (ties go to the higher strike)
AtmOf_LastMin(strikes, spot) == MinScanLast(strikes, 2, strikes[1], spot)

AtmOf(strikes, spot) == MinScan(strikes, 2, strikes[1], spot)

\* strikes.index(atm_strike): 0-based position of the first occurrence
IndexOf(strikes, x) ==
    (CHOOSE i \in 1..Len(strikes) :
        /\ strikes[i] = x
        /\ \A j \in 1..(i - 1) : strikes[j] # x) - 1

Max(a, b) == IF a > b THEN a ELSE b
Min(a, b) == IF a < b THEN a ELSE b

\* strikes[start_idx:end_idx] with 0-based, end-exclusive indices
Slice(s, start, end) == [i \in 1..Max(0, end - start) |-> s[start + i]]

(***************************************************************************)
(* pre_filter_stock(symbol, oc_data) -> (passed, filter_result)            *)
(* The record also carries the local atm_strike (NoStrike when the         *)
(* function returned before computing it).                                 *)
(***************************************************************************)
PfRet(passed, reason, atm, oi) ==
    [called |-> TRUE, passed |-> passed, reason |-> reason,
     atm_strike |-> atm, total_oi |-> oi]

\* 0.6 <= pcr <= 1.5 with pcr = pe_oi / ce_oi if ce_oi > 0 else 0
PcrInRange(ce_oi, pe_oi) ==
    /\ ce_oi > 0
    /\ 10 * pe_oi >= 6 * ce_oi
    /\ 10 * pe_oi <= 15 * ce_oi

pre_filter_stock(od) ==
    LET spot_price == GetLastPrice(od)
        oc == od.oc
    IN IF DOMAIN oc = {} THEN PfRet(FALSE, "No option chain data", NoStrike, 0)
       ELSE IF ~AllParseable(oc) \/ spot_price.kind = "null"
            THEN PfRet(FALSE, "exception", NoStrike, 0)
       ELSE LET strikes == SortedStrikes(oc)
                atm_strike == AtmOf(strikes, spot_price.v)
                atm_data == OcGet(oc, Format6(atm_strike))
                total_oi == atm_data.ce_oi + atm_data.pe_oi
            IN IF total_oi < MinTotalOI
                   THEN PfRet(FALSE, "Low OI", atm_strike, total_oi)
               ELSE IF ~PcrInRange(atm_data.ce_oi, atm_data.pe_oi)
                   THEN PfRet(FALSE, "PCR out of range", atm_strike, total_oi)
               ELSE IF atm_data.ce_iv + atm_data.pe_iv > 2 * MaxAvgIV
                   THEN PfRet(FALSE, "High IV", atm_strike, total_oi)
               ELSE PfRet(TRUE, "passed", atm_strike, total_oi)

(***************************************************************************)
(* format_option_data_for_ai(symbol, oc_data, spot_price) -> text          *)
(* The text carries the ATM strike and one row per selected strike; the    *)
(* record keeps them, with the indices the slice was cut at.  ok = FALSE   *)
(* is the "" returned by the exception handler.                            *)
(***************************************************************************)
FmtFailed ==
    [called |-> TRUE, ok |-> FALSE, atm_strike |-> NoStrike, atm_idx |-> 0,
     start_idx |-> 0, end_idx |-> 0, selected_strikes |-> <<>>]

\* the window cut one strike short above the ATM strike
WindowEnd_Short(n, atm_idx) == Min(n, atm_idx + HalfWidth)

\* end_idx = min(len(strikes), atm_idx + 6)
WindowEnd(n, atm_idx) == Min(n, atm_idx + HalfWidth + 1)

\* start_idx = max(0, atm_idx - 5)
WindowStart(atm_idx) == Max(0, atm_idx - HalfWidth)

format_option_data_for_ai(od, spot_price) ==
    LET oc == od.oc
    IN IF ~AllParseable(oc) \/ DOMAIN oc = {} \/ spot_price.kind = "null"
       THEN FmtFailed
       ELSE LET strikes == SortedStrikes(oc)
                atm_strike == AtmOf(strikes, spot_price.v)
                atm_idx == IndexOf(strikes, atm_strike)
                start_idx == WindowStart(atm_idx)
                end_idx == WindowEnd(Len(strikes), atm_idx)
            IN [called |-> TRUE, ok |-> TRUE, atm_strike |-> atm_strike,
                atm_idx |-> atm_idx, start_idx |-> start_idx,
                end_idx |-> end_idx,
                selected_strikes |-> Slice(strikes, start_idx, end_idx)]

(***************************************************************************)
(* WindowSpec: the two pure functions applied to every bounded payload.    *)
(***************************************************************************)
PfNotCalled ==
    [called |-> FALSE, passed |-> FALSE, reason |-> "", atm_strike |-> NoStrike,
     total_oi |-> 0]

FmtNotCalled ==
    [called |-> FALSE, ok |-> FALSE, atm_strike |-> NoStrike, atm_idx |-> 0,
     start_idx |-> 0, end_idx |-> 0, selected_strikes |-> <<>>]

\* an entry that passes every pre-filter check
GoodEntry == [ce_oi |-> 10000, pe_oi |-> 10000, ce_iv |-> 20, pe_iv |-> 20]

StrikeValues == 1..MaxStrike

LastPrices == {Num(n) : n \in 0..(MaxStrike + 1)} \cup {Null, Absent}

\* keys beside the six-decimal ones: none, one unparseable key, or one key
\* written in another form (its value may repeat a six-decimal key's value)
\* at the low end, the middle or the high end of the ladder
PlainValues == {1, (MaxStrike + 1) \div 2, MaxStrike}

ExtraKeys ==
    {{}} \cup {{[val |-> 0, form |-> "bad"]}}
         \cup {{[val |-> v, form |-> "plain"]} : v \in PlainValues}

WindowChains ==
    {[k \in ({Format6(v) : v \in vs} \cup ex) |-> GoodEntry] :
        vs \in SUBSET StrikeValues, ex \in ExtraKeys}

Symbols == 1..NumSymbols

NoLocals ==
    [expiry |-> FALSE, oc_kind |-> "none", spot_set |-> FALSE,
     spot_price |-> Absent, candles |-> 0, chart_buf |-> FALSE,
     flash |-> "none", pro |-> "none", gpt |-> "none"]

\* no process_stock call is in progress and none has been made
ProcIdle ==
    /\ pc = "idle"
    /\ symbol = 1
    /\ locals = NoLocals
    /\ requests = <<>>
    /\ calls = <<>>
    /\ result = [s \in Symbols |-> "unprocessed"]

\* the Transport Supervisor before its first subscribe
SupInit ==
    /\ sup_state = "Connecting"
    /\ failures = 0
    /\ poll_cycles = 0
    /\ polled = 0
    /\ quote_source = "none"
    /\ sup_event = "none"

WInit ==
    /\ oc_data \in [last_price : LastPrices, oc : WindowChains]
    /\ pf_result = PfNotCalled
    /\ fmt_result = FmtNotCalled
    /\ running = TRUE
    /\ security_id_map = {}
    /\ ProcIdle
    /\ SupInit

CallPreFilter ==
    /\ ~pf_result.called
    /\ pf_result' = pre_filter_stock(oc_data)
    /\ UNCHANGED <<oc_data, fmt_result, botvars, supvars, procvars>>

\* the formatter reading the ATM entry with oc.pop instead of oc.get
CallFormat_PopsAtm ==
    /\ ~fmt_result.called
    /\ fmt_result' = format_option_data_for_ai(oc_data, GetLastPrice(oc_data))
    /\ oc_data' =
          IF fmt_result'.ok
          THEN [oc_data EXCEPT !.oc =
                   [k \in DOMAIN oc_data.oc \ {Format6(fmt_result'.atm_strike)} |->
                       oc_data.oc[k]]]
          ELSE oc_data
    /\ UNCHANGED <<pf_result, botvars, supvars, procvars>>

CallFormat ==
    /\ ~fmt_result.called
    /\ fmt_result' = format_option_data_for_ai(oc_data, GetLastPrice(oc_data))
    /\ UNCHANGED <<oc_data, pf_result, botvars, supvars, procvars>>

WNext == CallPreFilter \/ CallFormat

WindowSpec == WInit /\ [][WNext]_vars

(***************************************************************************)
(* Properties of the windowing and of the ATM choice (WindowSpec).         *)
(***************************************************************************)
\* the strike ladder: the values of the chain's keys
Ladder == {ParseFloat(k) : k \in DOMAIN oc_data.oc}

\* the spot price both functions work with
SpotUsed == GetLastPrice(oc_data).v

Dist(x) == Abs(x - SpotUsed)

\* C1: whenever format_option_data_for_ai selects a window, the window is
\* sorted ascending by strike, has at most 2*HalfWidth+1 = 11 entries and
\* contains the ATM strike, and the ATM strike is an element of the ladder
\* that minimizes |strike - spot|.
C1_WindowWellFormed ==
    (fmt_result.called /\ fmt_result.ok) =>
        LET w == fmt_result.selected_strikes
            atm == fmt_result.atm_strike
        IN /\ \A i \in 1..(Len(w) - 1) : w[i] <= w[i + 1]
           /\ Len(w) <= 2 * HalfWidth + 1
           /\ \E i \in 1..Len(w) : w[i] = atm
           /\ atm \in Ladder
           /\ \A x \in Ladder : Dist(atm) <= Dist(x)

\* a window of 11 strikes cut out of a longer ladder
C1_Witness ==
    /\ fmt_result.called /\ fmt_result.ok
    /\ Len(fmt_result.selected_strikes) = 2 * HalfWidth + 1
    /\ Cardinality(DOMAIN oc_data.oc) > 2 * HalfWidth + 1

\* C2: when two strikes are equally distant from the spot, the ATM strike is
\* the lower one, in pre_filter_stock and in format_option_data_for_ai alike,
\* and the two functions choose the same ATM strike for the same payload.
C2_TieLowerAndAgree ==
    /\ (pf_result.called /\ pf_result.atm_strike # NoStrike) =>
          \A x \in Ladder :
              Dist(x) = Dist(pf_result.atm_strike) => pf_result.atm_strike <= x
    /\ (fmt_result.called /\ fmt_result.ok) =>
          \A x \in Ladder :
              Dist(x) = Dist(fmt_result.atm_strike) => fmt_result.atm_strike <= x
    /\ (pf_result.called /\ fmt_result.called) =>
          /\ fmt_result.ok <=> pf_result.atm_strike # NoStrike
          /\ pf_result.atm_strike = fmt_result.atm_strike

\* both functions ran on a payload with a tie between two strikes
C2_Witness ==
    /\ pf_result.called /\ fmt_result.called /\ fmt_result.ok
    /\ \E x \in Ladder :
          /\ x > fmt_result.atm_strike
          /\ Dist(x) = Dist(fmt_result.atm_strike)

\* C3 (as claimed): windowing an empty strike sequence returns an empty
\* window whose ATM strike equals the spot price, and is not an error.
C3_EmptyChainGivesEmptyWindow ==
    (fmt_result.called /\ DOMAIN oc_data.oc = {}
        /\ oc_data.last_price.kind = "num") =>
        /\ fmt_result.ok
        /\ fmt_result.selected_strikes = <<>>
        /\ fmt_result.atm_strike = oc_data.last_price.v

\* C9: the window is exactly the slice of the ascending ladder from index
\* max(0, i-W) to min(n-1, i+W) inclusive, i the index of the first
\* occurrence of the ATM strike; no wraparound, no padding, so an ATM strike
\* within W positions of an end of the ladder gives fewer than 2W+1 entries.
C9_WindowIsClampedSlice ==
    (fmt_result.called /\ fmt_result.ok) =>
        LET ks == DOMAIN oc_data.oc
            n == Cardinality(ks)
            atm == fmt_result.atm_strike
            w == fmt_result.selected_strikes
            \* first occurrence of atm in the ascending ladder (0-based)
            i == Cardinality({k \in ks : ParseFloat(k) < atm})
            lo == Max(0, i - HalfWidth)
            hi == Min(n - 1, i + HalfWidth)
            \* the strike at 0-based position p of the ascending ladder
            At(p) == CHOOSE x \in Ladder :
                        /\ Cardinality({k \in ks : ParseFloat(k) < x}) <= p
                        /\ Cardinality({k \in ks : ParseFloat(k) <= x}) > p
        IN /\ Len(w) = hi - lo + 1
           /\ \A j \in 1..Len(w) : w[j] = At(lo + j - 1)
           /\ (i < HalfWidth \/ i > n - 1 - HalfWidth) => Len(w) < 2 * HalfWidth + 1
           /\ (i >= HalfWidth /\ i <= n - 1 - HalfWidth) => Len(w) = 2 * HalfWidth + 1

\* the ATM strike value occurs twice and sits at the low end of a ladder that
\* is longer than the window: the window is cut at the edge, not padded
C9_Witness ==
    /\ fmt_result.called /\ fmt_result.ok
    /\ Cardinality({k \in DOMAIN oc_data.oc :
                        ParseFloat(k) = fmt_result.atm_strike}) = 2
    /\ fmt_result.start_idx = 0
    /\ Len(fmt_result.selected_strikes) < 2 * HalfWidth + 1
    /\ Len(fmt_result.selected_strikes) < Cardinality(DOMAIN oc_data.oc)

(***************************************************************************)
(* The upstream fetchers.  One HTTP exchange is either an exception raised *)
(* by requests.post (timeout, connection failure) or a response with a     *)
(* status code, an optional Retry-After header and a body.                 *)
(***************************************************************************)
HttpStatuses == {200, 429, 404, 500}

\* the Retry-After header: not sent, numeric, or not a number
RetryAfterHeaders == {"absent", "7", "abc"}

Responses(bodies) ==
    {[kind |-> "exception", status |-> 0, retry_after |-> "absent", body |-> "none"]}
    \cup {r \in [kind : {"response"}, status : HttpStatuses,
                 retry_after : RetryAfterHeaders, body : bodies] :
             r.retry_after # "absent" => r.status = 429}

\* what a fetcher hands back: None or a value; no fetcher of the program
\* returns or signals a wait, so wait is 0 in both
None == [kind |-> "None", wait |-> 0]
Value == [kind |-> "value", wait |-> 0]

\* bodies of the expiry-list endpoint: a success with dates, a success with
\* an empty list, a non-success status field, a body that is not JSON
ExpiryBodies == {"ok", "empty", "failure", "notjson"}

\* the fetcher that parses the body whatever the status code is
get_nearest_expiry_AnyStatus(resp) ==
    IF resp.kind = "exception" THEN None
    ELSE IF resp.body = "ok" THEN Value ELSE None

get_nearest_expiry(resp) ==
    IF resp.kind = "exception" THEN None
    ELSE IF resp.status = 200
         THEN IF resp.body = "ok" THEN Value ELSE None
         ELSE None

\* bodies of the option-chain endpoint: data is an object, data is empty or
\* missing, data is a non-empty list, the body is not JSON
ChainBodies == {"dict", "empty", "list", "notjson"}

get_option_chain(resp) ==
    IF resp.kind = "exception" THEN None
    ELSE IF resp.status = 200
         THEN IF resp.body \in {"dict", "list"} THEN Value ELSE None
         ELSE None

\* bodies of the intraday endpoint: the four OHLC arrays, an object without
\* them, a body that is not JSON
CandleBodies == {"candles", "invalid", "notjson"}

get_historical_data(resp) ==
    IF resp.kind = "exception" THEN None
    ELSE IF resp.status = 200
         THEN IF resp.body = "candles" THEN Value ELSE None
         ELSE None

\* lengths of the 'open' array of a candle response
CandleCounts == {0, MinCandles - 1, MinCandles}

(***************************************************************************)
(* The payloads the option-chain endpoint answers with in Spec.            *)
(***************************************************************************)
\* an entry whose total OI is below the minimum
LowOiEntry == [ce_oi |-> 4000, pe_oi |-> 4000, ce_iv |-> 20, pe_iv |-> 20]

ProcStrikes == {1, 3}

ProcChains ==
    UNION {[{Format6(v) : v \in vs} -> {GoodEntry, LowOiEntry}] :
              vs \in SUBSET ProcStrikes}

ProcLastPrices == {Num(0), Num(2), Null, Absent}

ProcPayloads == [last_price : ProcLastPrices, oc : ProcChains]

NoPayload == [last_price |-> Absent, oc |-> <<>>]

(***************************************************************************)
(* process_stock(symbol), one action per stage.                            *)
(***************************************************************************)
\* the value process_stock hands back when its handler re-raises
ProcessStockExcept_Reraise == "raised"

\* except Exception as e: ... return None
ProcessStockExcept == "None"

\* return value: the call is over
Return(v) ==
    /\ pc' = "idle"
    /\ result' = [result EXCEPT ![symbol] = v]

Exchange(url, resp, ret) ==
    [url |-> url, kind |-> resp.kind, status |-> resp.status,
     retry_after |-> resp.retry_after, ret |-> ret]

\* lines 635-642: the call starts; a symbol without an entry returns None
ProcessStockEnter(s) ==
    /\ pc = "idle"
    /\ symbol' = s
    /\ locals' = NoLocals
    /\ requests' = <<>>
    /\ calls' = <<>>
    /\ oc_data' = NoPayload
    /\ pf_result' = PfNotCalled
    /\ fmt_result' = FmtNotCalled
    /\ IF s \notin security_id_map
       THEN /\ pc' = "idle"
            /\ result' = [result EXCEPT ![s] = "None"]
       ELSE /\ pc' = "expiry"
            /\ result' = [result EXCEPT ![s] = "pending"]
    /\ UNCHANGED <<botvars, supvars>>

\* the expiry stage in the variant that asks again at once after a failure
GetNearestExpiryStep_Retry ==
    /\ pc = "expiry"
    /\ \E resp \in Responses(ExpiryBodies) :
          LET expiry == get_nearest_expiry(resp)
          IN /\ requests' = Append(requests, Exchange("expirylist", resp, expiry))
             /\ calls' = Append(calls, "expiry")
             /\ IF expiry = None
                THEN IF requests = <<>>
                     THEN UNCHANGED <<pc, result, locals>>
                     ELSE Return("None") /\ UNCHANGED locals
                ELSE /\ pc' = "chain"
                     /\ locals' = [locals EXCEPT !.expiry = TRUE]
                     /\ UNCHANGED result
    /\ UNCHANGED <<oc_data, pf_result, fmt_result, botvars, supvars, symbol>>

\* lines 644-648
GetNearestExpiryStep ==
    /\ pc = "expiry"
    /\ \E resp \in Responses(ExpiryBodies) :
          LET expiry == get_nearest_expiry(resp)
          IN /\ requests' = Append(requests, Exchange("expirylist", resp, expiry))
             /\ calls' = Append(calls, "expiry")
             /\ IF expiry = None
                THEN Return("None") /\ UNCHANGED locals
                ELSE /\ pc' = "chain"
                     /\ locals' = [locals EXCEPT !.expiry = TRUE]
                     /\ UNCHANGED result
    /\ UNCHANGED <<oc_data, pf_result, fmt_result, botvars, supvars, symbol>>

\* lines 650-654
GetOptionChainStep ==
    /\ pc = "chain"
    /\ \E resp \in Responses(ChainBodies) :
          LET ret == get_option_chain(resp)
          IN /\ requests' = Append(requests, Exchange("optionchain", resp, ret))
             /\ calls' = Append(calls, "chain")
             /\ IF ret = None
                THEN Return("None") /\ UNCHANGED <<locals, oc_data>>
                ELSE /\ pc' = "filter"
                     /\ locals' = [locals EXCEPT !.oc_kind = resp.body]
                     /\ IF resp.body = "dict"
                        THEN oc_data' \in ProcPayloads
                        ELSE UNCHANGED oc_data
                     /\ UNCHANGED result
    /\ UNCHANGED <<pf_result, fmt_result, botvars, supvars, symbol>>

\* the pre-filter stage in the variant that goes on whatever the filter said
PreFilterStep_NoGate ==
    /\ pc = "filter"
    /\ IF locals.oc_kind # "dict"
       THEN /\ Return(ProcessStockExcept)
            /\ UNCHANGED <<locals, calls, pf_result>>
       ELSE /\ locals' = [locals EXCEPT !.spot_set = TRUE,
                                        !.spot_price = GetLastPrice(oc_data)]
            /\ calls' = Append(calls, "filter")
            /\ pf_result' = pre_filter_stock(oc_data)
            /\ pc' = "candles"
            /\ UNCHANGED result
    /\ UNCHANGED <<oc_data, fmt_result, botvars, supvars, symbol, requests>>

\* lines 656-662: a payload that is no object makes oc_data.get raise
PreFilterStep ==
    /\ pc = "filter"
    /\ IF locals.oc_kind # "dict"
       THEN /\ Return(ProcessStockExcept)
            /\ UNCHANGED <<locals, calls, pf_result>>
       ELSE LET res == pre_filter_stock(oc_data)
            IN /\ locals' = [locals EXCEPT !.spot_set = TRUE,
                                           !.spot_price = GetLastPrice(oc_data)]
               /\ calls' = Append(calls, "filter")
               /\ pf_result' = res
               /\ IF ~res.passed
                  THEN Return("None")
                  ELSE pc' = "candles" /\ UNCHANGED result
    /\ UNCHANGED <<oc_data, fmt_result, botvars, supvars, symbol, requests>>

\* lines 664-668
GetHistoricalDataStep ==
    /\ pc = "candles"
    /\ \E resp \in Responses(CandleBodies), n \in CandleCounts :
          LET ret == get_historical_data(resp)
          IN /\ requests' = Append(requests, Exchange("intraday", resp, ret))
             /\ calls' = Append(calls, "candles")
             /\ IF ret = None \/ n < MinCandles
                THEN Return("None") /\ UNCHANGED locals
                ELSE /\ pc' = "chart"
                     /\ locals' = [locals EXCEPT !.candles = n]
                     /\ UNCHANGED result
    /\ UNCHANGED <<oc_data, pf_result, fmt_result, botvars, supvars, symbol>>

\* lines 670-674: the chart is drawn, or create_candlestick_chart returns None
CreateChartStep ==
    /\ pc = "chart"
    /\ calls' = Append(calls, "chart")
    /\ \E drawn \in BOOLEAN :
          IF drawn
          THEN /\ pc' = "flash"
               /\ locals' = [locals EXCEPT !.chart_buf = TRUE]
               /\ UNCHANGED result
          ELSE Return("None") /\ UNCHANGED locals
    /\ UNCHANGED <<oc_data, pf_result, fmt_result, botvars, supvars, symbol, requests>>

\* what Gemini Flash answers: tradeable true, tradeable false, an object
\* without the key, an exception (the scan returns tradeable False), or JSON
\* that is no object (flash_result.get raises in process_stock)
FlashAnswers == {"tradeable", "not_tradeable", "no_key", "exception", "list"}

\* lines 676-684
GeminiFlashStep ==
    /\ pc = "flash"
    /\ fmt_result' = format_option_data_for_ai(oc_data, locals.spot_price)
    /\ calls' = Append(calls, "flash")
    /\ \E a \in FlashAnswers :
          /\ locals' = [locals EXCEPT !.flash = a]
          /\ IF a = "list" THEN Return(ProcessStockExcept)
             ELSE IF a # "tradeable" THEN Return("None")
             ELSE pc' = "pro" /\ UNCHANGED result
    /\ UNCHANGED <<oc_data, pf_result, botvars, supvars, symbol, requests>>

\* what Gemini Pro gives: a result, an empty object, or an exception (None)
ProAnswers == {"result", "empty", "exception"}

\* lines 686-690
GeminiProStep ==
    /\ pc = "pro"
    /\ calls' = Append(calls, "pro")
    /\ \E a \in ProAnswers :
          /\ locals' = [locals EXCEPT !.pro = a]
          /\ IF a # "result" THEN Return("None")
             ELSE pc' = "gpt" /\ UNCHANGED result
    /\ UNCHANGED <<oc_data, pf_result, fmt_result, botvars, supvars, symbol, requests>>

\* what GPT-4o gives: valid true, valid false, an exception (None), or JSON
\* that is no object (gpt_result.get raises in process_stock)
GptAnswers == {"valid", "invalid", "exception", "list"}

\* the last stage in the variant that does not look at gpt_result['valid']
Gpt4oStep_IgnoresValid ==
    /\ pc = "gpt"
    /\ calls' = Append(calls, "gpt")
    /\ \E a \in GptAnswers :
          /\ locals' = [locals EXCEPT !.gpt = a]
          /\ IF a = "exception" THEN Return("None") ELSE Return("signal")
    /\ UNCHANGED <<oc_data, pf_result, fmt_result, botvars, supvars, symbol, requests>>

\* lines 692-711
Gpt4oStep ==
    /\ pc = "gpt"
    /\ calls' = Append(calls, "gpt")
    /\ \E a \in GptAnswers :
          /\ locals' = [locals EXCEPT !.gpt = a]
          /\ IF a = "list" THEN Return(ProcessStockExcept)
             ELSE IF a # "valid" THEN Return("None")
             ELSE Return("signal")
    /\ UNCHANGED <<oc_data, pf_result, fmt_result, botvars, supvars, symbol, requests>>

Init ==
    /\ oc_data = NoPayload
    /\ pf_result = PfNotCalled
    /\ fmt_result = FmtNotCalled
    /\ running = TRUE
    /\ security_id_map \in SUBSET Symbols
    /\ ProcIdle
    /\ SupInit

Next ==
    \/ \E s \in Symbols : ProcessStockEnter(s)
    \/ GetNearestExpiryStep
    \/ GetOptionChainStep
    \/ PreFilterStep
    \/ GetHistoricalDataStep
    \/ CreateChartStep
    \/ GeminiFlashStep
    \/ GeminiProStep
    \/ Gpt4oStep

Spec == Init /\ [][Next]_vars

(***************************************************************************)
(* Properties of process_stock and of the fetchers (Spec).                 *)
(***************************************************************************)
LastRequest == requests[Len(requests)]

RequestsTo(url) == {i \in DOMAIN requests : requests[i].url = url}

\* C4: whatever fails upstream, a process_stock call ends by returning None
\* or a trade signal and never raises, and it changes neither the outcome
\* recorded for any other symbol nor the bot's state.
C4_FailureIsolated ==
    [][/\ \A s \in Symbols :
             /\ result'[s] \in {"unprocessed", "pending", "None", "signal"}
             /\ result'[s] = "pending" => (pc' # "idle" /\ symbol' = s)
       /\ \A t \in Symbols \ {symbol'} : result'[t] = result[t]
       /\ UNCHANGED botvars]_vars

\* a call ended in process_stock's exception handler (GPT-4o answered with
\* JSON that is no object) while another symbol's signal stayed recorded
C4_Witness ==
    /\ pc = "idle"
    /\ locals.gpt = "list"
    /\ result[symbol] = "None"
    /\ \E t \in Symbols \ {symbol} : result[t] = "signal"

\* C5 (as claimed): a last price that is missing or unusable reaches
\* process_stock's spot_price as absent and is never replaced by a number.
C5_MissingPriceStaysAbsent ==
    (locals.spot_set /\ oc_data.last_price.kind # "num") =>
        locals.spot_price.kind # "num"

\* C6 (as claimed): a 429 response makes the fetcher signal a wait, 7 seconds
\* for Retry-After: 7 and the default 10 seconds when the header is absent or
\* not a number, as an outcome distinct from the other errors.
C6_RateLimitSignalsWait ==
    \A i \in DOMAIN requests :
        (requests[i].kind = "response" /\ requests[i].status = 429) =>
            requests[i].ret =
                [kind |-> "RateLimited",
                 wait |-> IF requests[i].retry_after = "7" THEN 7 ELSE 10]

\* C7: a response whose status is neither 200 nor 429 makes the fetcher
\* return None and process_stock return None for the symbol, and leaves
\* running and security_id_map as they were.
C7_UpstreamErrorIsNoData ==
    [][(/\ Len(requests') = Len(requests) + 1
        /\ requests'[Len(requests')].kind = "response"
        /\ requests'[Len(requests')].status \notin {200, 429}) =>
           /\ requests'[Len(requests')].ret = None
           /\ pc' = "idle"
           /\ result'[symbol'] = "None"
           /\ UNCHANGED botvars]_vars

\* the candle request of a call that got as far as the third endpoint was
\* answered with an error status, and the call returned None
C7_Witness ==
    /\ pc = "idle"
    /\ Len(requests) = 3
    /\ LastRequest.url = "intraday"
    /\ LastRequest.status \in {404, 500}
    /\ result[symbol] = "None"
    /\ running

\* C10: within one process_stock call each upstream endpoint is requested at
\* most once, and a request that failed (timeout, connection failure, error
\* response) is the last request of the call.
C10_NoImmediateRetry ==
    /\ \A url \in {"expirylist", "optionchain", "intraday"} :
           Cardinality(RequestsTo(url)) <= 1
    /\ \A i \in DOMAIN requests :
           requests[i].ret = None => (i = Len(requests) /\ pc = "idle")

\* the first request of a call timed out and the call was over
C10_Witness ==
    /\ pc = "idle"
    /\ Len(requests) = 1
    /\ LastRequest.kind = "exception"
    /\ result[symbol] = "None"

(***************************************************************************)
(* The Transport Supervisor (spec section 4.5).  src/nifty_bot.py holds no *)
(* streaming transport; the state machine below is written from the        *)
(* specification's description of it.                                      *)
(***************************************************************************)
\* consecutive stream failures after which the Supervisor fails over
FailureThreshold == 3

\* successful poll cycles after which the stream is tried again
CoolDownCycles == 2

\* the count of polled quotes saturates here
MaxPolled == 5

appvars == <<oc_data, pf_result, fmt_result, botvars, procvars>>

\* the failover test taken one failure early
FailoverDue_Early(f) == f >= FailureThreshold - 1

\* "once the failure counter reaches a threshold (3 consecutive failures)"
FailoverDue(f) == f >= FailureThreshold

\* Connecting -> Streaming on a successful subscribe handshake; the failure
\* counter is reset
SubscribeOk ==
    /\ sup_state = "Connecting"
    /\ sup_state' = "Streaming"
    /\ failures' = 0
    /\ poll_cycles' = 0
    /\ sup_event' = "subscribe_ok"
    /\ UNCHANGED <<polled, quote_source, appvars>>

\* a failed subscribe: after a cool-down it returns to Polling without
\* counting again; before any failover it counts as a stream failure
SubscribeFail ==
    /\ sup_state = "Connecting"
    /\ IF FailoverDue(failures)
       THEN sup_state' = "Polling" /\ UNCHANGED failures
       ELSE sup_state' = "FailingOver" /\ failures' = failures + 1
    /\ poll_cycles' = 0
    /\ sup_event' = "subscribe_fail"
    /\ UNCHANGED <<polled, quote_source, appvars>>

\* an accepted stream message: a quote through the stream, and the failures
\* are consecutive no longer
StreamMessage ==
    /\ sup_state = "Streaming"
    /\ failures' = 0
    /\ quote_source' = "stream"
    /\ sup_event' = "stream_msg"
    /\ UNCHANGED <<sup_state, poll_cycles, polled, appvars>>

\* Streaming -> FailingOver on connection-closed or parse-failure
StreamFailure ==
    /\ sup_state = "Streaming"
    /\ sup_state' = "FailingOver"
    /\ failures' = failures + 1
    /\ sup_event' = "stream_fail"
    /\ UNCHANGED <<poll_cycles, polled, quote_source, appvars>>

\* the immediate reconnect a failure attempts, below the threshold
Reconnect ==
    /\ sup_state = "FailingOver"
    /\ ~FailoverDue(failures)
    /\ \/ /\ sup_state' = "Streaming"
          /\ sup_event' = "reconnect_ok"
          /\ UNCHANGED failures
       \/ /\ sup_state' = "FailingOver"
          /\ sup_event' = "reconnect_fail"
          /\ failures' = failures + 1
    /\ UNCHANGED <<poll_cycles, polled, quote_source, appvars>>

\* FailingOver -> Polling once the counter has reached the threshold
Failover ==
    /\ sup_state = "FailingOver"
    /\ FailoverDue(failures)
    /\ sup_state' = "Polling"
    /\ poll_cycles' = 0
    /\ sup_event' = "failover"
    /\ UNCHANGED <<failures, polled, quote_source, appvars>>

\* one poll cycle of the Quote Fetcher while Polling: it succeeds and hands
\* on quotes, or it fails and the next cycle follows
PollCycle ==
    /\ sup_state = "Polling"
    /\ poll_cycles < CoolDownCycles
    /\ \/ /\ poll_cycles' = poll_cycles + 1
          /\ polled' = Min(polled + 1, MaxPolled)
          /\ quote_source' = "poll"
          /\ sup_event' = "poll_ok"
       \/ /\ sup_event' = "poll_fail"
          /\ UNCHANGED <<poll_cycles, polled, quote_source>>
    /\ UNCHANGED <<sup_state, failures, appvars>>

\* Polling -> CoolingDown after the configured number of successful cycles
StartCoolDown ==
    /\ sup_state = "Polling"
    /\ poll_cycles >= CoolDownCycles
    /\ sup_state' = "CoolingDown"
    /\ sup_event' = "cool_down"
    /\ UNCHANGED <<failures, poll_cycles, polled, quote_source, appvars>>

\* CoolingDown -> Connecting: the stream is tried again
CoolDownElapsed ==
    /\ sup_state = "CoolingDown"
    /\ sup_state' = "Connecting"
    /\ sup_event' = "reconnecting"
    /\ UNCHANGED <<failures, poll_cycles, polled, quote_source, appvars>>

\* any state -> Terminal on a shutdown request
Shutdown ==
    /\ sup_state # "Terminal"
    /\ sup_state' = "Terminal"
    /\ sup_event' = "shutdown"
    /\ UNCHANGED <<failures, poll_cycles, polled, quote_source, appvars>>

SupervisorInit ==
    /\ oc_data = NoPayload
    /\ pf_result = PfNotCalled
    /\ fmt_result = FmtNotCalled
    /\ running = TRUE
    /\ security_id_map = {}
    /\ ProcIdle
    /\ SupInit

SupervisorNext ==
    \/ SubscribeOk
    \/ SubscribeFail
    \/ StreamMessage
    \/ StreamFailure
    \/ Reconnect
    \/ Failover
    \/ PollCycle
    \/ StartCoolDown
    \/ CoolDownElapsed
    \/ Shutdown

SupervisorSpec == SupervisorInit /\ [][SupervisorNext]_vars

\* C8: the Supervisor enters Polling only with three consecutive stream
\* failures counted, never fewer, and with three counted it leaves FailingOver
\* for Polling only; while Polling, a successful poll cycle acquires the
\* quotes through the polling fetcher; and a successful subscribe after the
\* cool-down puts it back in Streaming.
C8_FailoverAndReturn ==
    [][/\ (sup_state' = "Polling" /\ sup_state # "Polling") =>
              failures' = FailureThreshold
       /\ (sup_state = "Streaming" /\ sup_state' # "Streaming") =>
              sup_state' \in {"FailingOver", "Terminal"}
       /\ (sup_state = "FailingOver" /\ failures = FailureThreshold) =>
              sup_state' \in {"Polling", "Terminal"}
       /\ (sup_state = "Polling" /\ sup_event' = "poll_ok") =>
              (quote_source' = "poll" /\ sup_state' = "Polling")
       /\ (sup_state = "Connecting" /\ sup_event' = "subscribe_ok") =>
              (sup_state' = "Streaming" /\ failures' = 0)]_vars

\* back in Streaming by a successful subscribe, after quotes were polled
C8_Witness ==
    /\ sup_state = "Streaming"
    /\ sup_event = "subscribe_ok"
    /\ quote_source = "poll"
    /\ polled > 0

(***************************************************************************)
(* FilterSpec: the two pure functions on payloads whose entries sit on and *)
(* around the pre-filter's thresholds, with keys in either form.           *)
(***************************************************************************)
Entry(ce_oi, pe_oi, ce_iv, pe_iv) ==
    [ce_oi |-> ce_oi, pe_oi |-> pe_oi, ce_iv |-> ce_iv, pe_iv |-> pe_iv]

\* open interest and implied volatility on, just below and just above the
\* thresholds of lines 379, 384 and 392
FilterEntries ==
    {GoodEntry, LowOiEntry,
     Entry(5000, 5000, 20, 20), Entry(5000, 4999, 20, 20),
     Entry(10000, 6000, 20, 20), Entry(10000, 5999, 20, 20),
     Entry(10000, 15000, 20, 20), Entry(10000, 15001, 20, 20),
     Entry(0, 20000, 20, 20),
     Entry(10000, 10000, 50, 50), Entry(10000, 10000, 50, 51),
     Entry(10000, 10000, 49, 50)}

Plain(v) == [val |-> v, form |-> "plain"]

\* the keys one strike value has in the chain: none, the six-decimal key, a
\* key in another form, or both
KeysOf(v) ==
    [{} -> FilterEntries]
    \cup [{Format6(v)} -> FilterEntries]
    \cup [{Plain(v)} -> {GoodEntry}]
    \cup {f \in [{Format6(v), Plain(v)} -> FilterEntries] : f[Plain(v)] = GoodEntry}

\* with or without one key float() rejects
BadKeyOptions ==
    [{} -> FilterEntries] \cup [{[val |-> 0, form |-> "bad"]} -> {GoodEntry}]

\* the union of chains with disjoint keys
Merge(f, g) ==
    [k \in (DOMAIN f) \cup (DOMAIN g) |-> IF k \in DOMAIN f THEN f[k] ELSE g[k]]

\* chains over the strikes 1 and 3
FilterChains ==
    {Merge(Merge(f, g), b) : f \in KeysOf(1), g \in KeysOf(3), b \in BadKeyOptions}

\* spot below, between (a tie), at the upper strike; null; not present
FilterLastPrices == {Num(0), Num(2), Num(3), Null, Absent}

FInit ==
    /\ oc_data \in [last_price : FilterLastPrices, oc : FilterChains]
    /\ pf_result = PfNotCalled
    /\ fmt_result = FmtNotCalled
    /\ running = TRUE
    /\ security_id_map \in SUBSET Symbols
    /\ ProcIdle
    /\ SupInit

FNext == CallPreFilter \/ CallFormat

FilterSpec == FInit /\ [][FNext]_vars

(***************************************************************************)
(* Properties of the pre-filter (FilterSpec).                              *)
(***************************************************************************)
\* the entry pre_filter_stock reads for the ATM strike it chose
AtmEntry ==
    IF Format6(pf_result.atm_strike) \in DOMAIN oc_data.oc
    THEN oc_data.oc[Format6(pf_result.atm_strike)]
    ELSE NoEntry

\* C11 (as claimed): pre_filter_stock passes exactly when, at the ATM strike,
\* call OI + put OI is at least 10,000, put OI / call OI lies within 0.6 to
\* 1.5 inclusive (call OI zero is rejected) and the average of the call and
\* put implied volatility is below 50; otherwise it returns not-passed with
\* a reason.
C11_PassIffThresholds ==
    pf_result.called =>
        /\ pf_result.passed <=>
              /\ pf_result.atm_strike # NoStrike
              /\ AtmEntry.ce_oi + AtmEntry.pe_oi >= 10000
              /\ AtmEntry.ce_oi > 0
              /\ 10 * AtmEntry.pe_oi >= 6 * AtmEntry.ce_oi
              /\ 10 * AtmEntry.pe_oi <= 15 * AtmEntry.ce_oi
              /\ AtmEntry.ce_iv + AtmEntry.pe_iv < 2 * 50
        /\ ~pf_result.passed =>
              pf_result.reason \in {"No option chain data", "Low OI",
                                    "PCR out of range", "High IV", "exception"}

\* C12: format_option_data_for_ai and pre_filter_stock leave the option-chain
\* data they are given (keys and per-strike entries, and the last price) and
\* security_id_map unchanged, whether they succeed or fail.
C12_InputsUnchanged ==
    [][(pf_result' # pf_result \/ fmt_result' # fmt_result) =>
           (oc_data' = oc_data /\ security_id_map' = security_id_map)]_vars

\* the formatter succeeded and the pre-filter rejected the same payload, with
\* symbols loaded in security_id_map
C12_Witness ==
    /\ fmt_result.called /\ fmt_result.ok
    /\ pf_result.called /\ ~pf_result.passed
    /\ security_id_map # {}
    /\ Cardinality(DOMAIN oc_data.oc) > 1

\* C15: pre_filter_stock reads the ATM open interest and implied volatility
\* only from the entry whose key is the six-decimal text of the ATM strike;
\* when the chain writes that strike's key in another form, the ATM entry is
\* taken as empty, total OI is 0 and the result is the low-OI rejection, so
\* the pre-filter passes only if the six-decimal key exists.
C15_AtmReadBySixDecimalKey ==
    (pf_result.called /\ pf_result.atm_strike # NoStrike) =>
        /\ pf_result.total_oi = AtmEntry.ce_oi + AtmEntry.pe_oi
        /\ pf_result.reason = "High IV" =>
              AtmEntry.ce_iv + AtmEntry.pe_iv > 2 * MaxAvgIV
        /\ Format6(pf_result.atm_strike) \notin DOMAIN oc_data.oc =>
              /\ pf_result.total_oi = 0
              /\ ~pf_result.passed
              /\ pf_result.reason = "Low OI"
        /\ pf_result.passed => Format6(pf_result.atm_strike) \in DOMAIN oc_data.oc

\* the ATM strike's only key is written in another form, its entry carries
\* enough open interest, and the pre-filter rejected it for low OI
C15_Witness ==
    /\ pf_result.called
    /\ pf_result.atm_strike # NoStrike
    /\ Format6(pf_result.atm_strike) \notin DOMAIN oc_data.oc
    /\ Plain(pf_result.atm_strike) \in DOMAIN oc_data.oc
    /\ oc_data.oc[Plain(pf_result.atm_strike)].ce_oi >= MinTotalOI
    /\ pf_result.reason = "Low OI"

(***************************************************************************)
(* Properties of the pipeline's gates and stage order (Spec).              *)
(***************************************************************************)
\* every gate of the current process_stock call passed
AllGatesPassed ==
    /\ symbol \in security_id_map
    /\ locals.expiry
    /\ locals.oc_kind = "dict"
    /\ DOMAIN oc_data.oc # {}
    /\ pf_result.called /\ pf_result.passed
    /\ locals.candles >= MinCandles
    /\ locals.chart_buf
    /\ locals.flash = "tradeable"
    /\ locals.pro = "result"
    /\ locals.gpt = "valid"

\* C13: a process_stock call returns a trade signal only if every gate
\* passed in that call (symbol in security_id_map, expiry found, option
\* chain non-empty, pre-filter passed, at least 10 candles, chart created,
\* Gemini Flash tradeable, Gemini Pro result, GPT-4o valid); if any gate
\* fails the call returns None.
C13_SignalOnlyIfAllGates ==
    (pc = "idle" /\ result[symbol] # "unprocessed") =>
        /\ result[symbol] \in {"None", "signal"}
        /\ result[symbol] = "signal" <=> AllGatesPassed

\* a call that returned a trade signal
C13_Witness ==
    /\ pc = "idle"
    /\ result[symbol] = "signal"
    /\ AllGatesPassed

StageOrder ==
    <<"expiry", "chain", "filter", "candles", "chart", "flash", "pro", "gpt">>

Started(stage) == \E i \in DOMAIN calls : calls[i] = stage

\* C14: the stages of a process_stock call start in the fixed order expiry,
\* option chain, pre-filter, candles, chart, Gemini Flash, Gemini Pro,
\* GPT-4o, and a stage starts only if the one before it succeeded: no candle
\* request and no AI call after a failed pre-filter, Gemini Pro only after
\* Gemini Flash answered tradeable, GPT-4o only after Gemini Pro gave a
\* result.
C14_StagesInOrder ==
    /\ Len(calls) <= Len(StageOrder)
    /\ calls = SubSeq(StageOrder, 1, Len(calls))
    /\ Started("chain") => locals.expiry
    /\ Started("filter") => locals.oc_kind = "dict"
    /\ Started("candles") => (pf_result.called /\ pf_result.passed)
    /\ RequestsTo("intraday") # {} => (pf_result.called /\ pf_result.passed)
    /\ Started("chart") => locals.candles >= MinCandles
    /\ Started("flash") => (locals.chart_buf /\ pf_result.passed)
    /\ Started("pro") => locals.flash = "tradeable"
    /\ Started("gpt") => locals.pro = "result"

\* a call that the pre-filter ended: three stages started, no candle request
C14_Witness ==
    /\ pc = "idle"
    /\ calls = <<"expiry", "chain", "filter">>
    /\ pf_result.called /\ ~pf_result.passed
    /\ RequestsTo("intraday") = {}
    /\ result[symbol] = "None"

====
